---------------------------- MODULE Spec2Model ----------------------------
(***************************************************************************)
(* A model of the SMS spend analyzer: analyze.py (parse_sms_xml,           *)
(* analyze_sms_list, ensure_keys, save_to_sqlite, save_to_csv, main) and   *)
(* llama.py (analyze_sms).  Texts are TLA+ strings handled character by    *)
(* character, Python values are records [t, s, m] (type tag, text payload, *)
(* members), and an exception is the name of its class.                    *)
(***************************************************************************)
EXTENDS Integers, Sequences, FiniteSets, TLC

VARIABLES
    pc,        \* position of the running function
    xml,       \* the <sms> elements of the document, in document order
    i,         \* index of the loop of the running function
    sms_list,  \* parse_sms_xml's list / analyze_sms_list's argument
    replies,   \* the responses the text-understanding service may give
    output,    \* analyze_sms_list's output / save_to_sqlite's argument
    raw,       \* the calls of analyze_sms so far and what each returned
    db,        \* the committed rows of table sms in sms.db
    txn,       \* the rows the open connection sees (uncommitted included)
    csv,       \* the data rows of sms.csv
    raised     \* class of the exception that left the function, "" if none

vars == <<pc, xml, i, sms_list, replies, output, raw, db, txn, csv, raised>>

-----------------------------------------------------------------------------
(* Bounds of the model. *)

\* Longest document, message list and batch explored.
MaxMsgs == 2

-----------------------------------------------------------------------------
(* Characters and strings. *)

\* s[i], or "" outside the string.
Ch(s, k) == IF k >= 1 /\ k <= Len(s) THEN SubSeq(s, k, k) ELSE ""

\* s[a..b], cut at the end of the string.
Slice(s, a, b) ==
    IF a > Len(s) THEN "" ELSE SubSeq(s, a, IF b > Len(s) THEN Len(s) ELSE b)

CharsOf(s) == { SubSeq(s, k, k) : k \in 1..Len(s) }

Digits == CharsOf("0123456789")

\* The whitespace json.loads and int() skip.
WS == {" ", "\t", "\n", "\r"}

\* The 7-bit characters of the model's texts; encode('ascii', 'ignore')
\* keeps exactly the 7-bit ones.
AsciiChars ==
    CharsOf(" !#$%&()*+,-./0123456789:;<=>?@ABCDEFGHIJKLMNOPQRSTUVWXYZ[]^_abcdefghijklmnopqrstuvwxyz{|}~")
        \cup {"\"", "'", "\\", "\n", "\t", "\r"}

RECURSIVE SkipWs(_, _)
SkipWs(s, k) == IF Ch(s, k) \in WS THEN SkipWs(s, k + 1) ELSE k

\* The first index from k on that holds no digit.
RECURSIVE SpanDigits(_, _)
SpanDigits(s, k) == IF Ch(s, k) \in Digits THEN SpanDigits(s, k + 1) ELSE k

RECURSIVE StripLeadingZeros(_)
StripLeadingZeros(s) ==
    IF Len(s) > 1 /\ Ch(s, 1) = "0" THEN StripLeadingZeros(Tail(s)) ELSE s

RECURSIVE StripTrailingZeros(_)
StripTrailingZeros(s) ==
    IF Len(s) > 1 /\ Ch(s, Len(s)) = "0"
    THEN StripTrailingZeros(SubSeq(s, 1, Len(s) - 1))
    ELSE s

\* str.strip()
RECURSIVE StripRight(_)
StripRight(s) ==
    IF Len(s) > 0 /\ Ch(s, Len(s)) \in WS
    THEN StripRight(SubSeq(s, 1, Len(s) - 1))
    ELSE s

Strip(s) == StripRight(SubSeq(s, SkipWs(s, 1), Len(s)))

-----------------------------------------------------------------------------
(* Python values. *)

PyNone == [t |-> "none", s |-> "", m |-> <<>>]
PyStr(x) == [t |-> "str", s |-> x, m |-> <<>>]
PyInt(x) == [t |-> "int", s |-> x, m |-> <<>>]
PyFloat(x) == [t |-> "float", s |-> x, m |-> <<>>]
PyBool(x) == [t |-> "bool", s |-> x, m |-> <<>>]
PyDict(members) == [t |-> "dict", s |-> "", m |-> members]
PyList(items) == [t |-> "list", s |-> "", m |-> items]

\* repr of the float with sign neg, integer digits ip and fraction digits fp.
FloatRepr(neg, ip, fp) ==
    (IF neg THEN "-" ELSE "") \o StripLeadingZeros(ip) \o "."
        \o (IF fp = "" THEN "0" ELSE StripTrailingZeros(fp))

\* Python's truth value of v, as `if json_analysis` takes it.
Truthy(v) ==
    CASE v.t = "none" -> FALSE
      [] v.t = "bool" -> v.s = "true"
      [] v.t = "int" -> StripLeadingZeros(v.s) \notin {"0", "-0"}
      [] v.t = "float" -> v.s \notin {"0.0", "-0.0"}
      [] v.t = "str" -> v.s # ""
      [] OTHER -> v.m # <<>>

\* d[key] = val on the members of a dict: a key already there keeps its place.
RECURSIVE DictSet(_, _, _)
DictSet(members, key, val) ==
    IF members = <<>> THEN << [k |-> key, v |-> val] >>
    ELSE IF Head(members).k = key
         THEN << [k |-> key, v |-> val] >> \o Tail(members)
         ELSE << Head(members) >> \o DictSet(Tail(members), key, val)

HasKey(members, key) == \E n \in 1..Len(members) : members[n].k = key

\* dict.get(key, default)
DictGet(members, key, default) ==
    IF HasKey(members, key)
    THEN members[CHOOSE n \in 1..Len(members) : members[n].k = key].v
    ELSE default

-----------------------------------------------------------------------------
(* json.loads and json.dumps. *)

ParseFail == [ok |-> FALSE, v |-> PyNone, i |-> 0]
ParseOk(v, k) == [ok |-> TRUE, v |-> v, i |-> k]

\* The character an escape stands for, "" for none.  (The texts here have
\* no \b, \f or \u escape.)
Unescaped(c) ==
    CASE c \in {"\"", "\\", "/"} -> c
      [] c = "n" -> "\n"
      [] c = "t" -> "\t"
      [] c = "r" -> "\r"
      [] OTHER -> ""

\* The string literal whose opening quote is before position k.
RECURSIVE ScanString(_, _, _)
ScanString(s, k, acc) ==
    LET c == Ch(s, k) IN
    CASE c = "" -> ParseFail
      [] c = "\"" -> ParseOk(PyStr(acc), k + 1)
      [] c \in {"\n", "\t", "\r"} -> ParseFail
      [] c = "\\" -> IF Unescaped(Ch(s, k + 1)) # ""
                     THEN ScanString(s, k + 2, acc \o Unescaped(Ch(s, k + 1)))
                     ELSE ParseFail
      [] OTHER -> ScanString(s, k + 1, acc \o c)

\* The number whose integer digits are s[a..b-1] and whose fraction, if
\* any, ends before c.
NumberOf(s, neg, a, b, c) ==
    IF b = a THEN ParseFail
    ELSE IF Ch(s, b) = "." /\ c > b + 1
    THEN ParseOk(PyFloat(FloatRepr(neg, SubSeq(s, a, b - 1), SubSeq(s, b + 1, c - 1))), c)
    ELSE ParseOk(PyInt((IF neg /\ SubSeq(s, a, b - 1) # "0" THEN "-" ELSE "")
                            \o SubSeq(s, a, b - 1)), b)

ScanFraction(s, neg, a, b) == NumberOf(s, neg, a, b, SpanDigits(s, b + 1))

ScanDigits(s, neg, a) ==
    ScanFraction(s, neg, a, IF Ch(s, a) = "0" THEN a + 1 ELSE SpanDigits(s, a))

\* -?(0|[1-9]\d*)(\.\d+)? at position k.  (The texts here have no number
\* with an exponent.)
ScanNumber(s, k) == ScanDigits(s, Ch(s, k) = "-", IF Ch(s, k) = "-" THEN k + 1 ELSE k)

RECURSIVE ScanValue(_, _), ScanMembers(_, _, _), ScanItems(_, _, _)

\* After a member: "}" ends the object, "," brings the next member.
MoreMembers(s, members, k) ==
    IF Ch(s, k) = "}" THEN ParseOk(PyDict(members), k + 1)
    ELSE IF Ch(s, k) = "," THEN ScanMembers(s, SkipWs(s, k + 1), members)
    ELSE ParseFail

AfterValue(s, acc, key, val) ==
    IF ~val.ok THEN ParseFail
    ELSE MoreMembers(s, DictSet(acc, key, val.v), SkipWs(s, val.i))

AfterColon(s, acc, key, k) ==
    IF Ch(s, k) # ":" THEN ParseFail
    ELSE AfterValue(s, acc, key, ScanValue(s, SkipWs(s, k + 1)))

AfterKey(s, acc, key) ==
    IF ~key.ok THEN ParseFail ELSE AfterColon(s, acc, key.v.s, SkipWs(s, key.i))

\* The members of an object from position k (a key's opening quote) on.
ScanMembers(s, k, acc) ==
    IF Ch(s, k) # "\"" THEN ParseFail ELSE AfterKey(s, acc, ScanString(s, k + 1, ""))

\* After an item: "]" ends the array, "," brings the next item.
MoreItems(s, items, k) ==
    IF Ch(s, k) = "]" THEN ParseOk(PyList(items), k + 1)
    ELSE IF Ch(s, k) = "," THEN ScanItems(s, SkipWs(s, k + 1), items)
    ELSE ParseFail

AfterItem(s, acc, val) ==
    IF ~val.ok THEN ParseFail
    ELSE MoreItems(s, Append(acc, [k |-> "", v |-> val.v]), SkipWs(s, val.i))

\* The items of an array from position k on.
ScanItems(s, k, acc) == AfterItem(s, acc, ScanValue(s, k))

\* After "{" and after "[", at the first character that is no whitespace.
OpenObject(s, k) ==
    IF Ch(s, k) = "}" THEN ParseOk(PyDict(<<>>), k + 1) ELSE ScanMembers(s, k, <<>>)

OpenArray(s, k) ==
    IF Ch(s, k) = "]" THEN ParseOk(PyList(<<>>), k + 1) ELSE ScanItems(s, k, <<>>)

\* The JSON value that starts at position k.
ScanValue(s, k) ==
    LET c == Ch(s, k) IN
    CASE c = "{" -> OpenObject(s, SkipWs(s, k + 1))
      [] c = "[" -> OpenArray(s, SkipWs(s, k + 1))
      [] c = "\"" -> ScanString(s, k + 1, "")
      [] c \in Digits \cup {"-"} -> ScanNumber(s, k)
      [] Slice(s, k, k + 3) = "null" -> ParseOk(PyNone, k + 4)
      [] Slice(s, k, k + 3) = "true" -> ParseOk(PyBool("true"), k + 4)
      [] Slice(s, k, k + 4) = "false" -> ParseOk(PyBool("false"), k + 5)
      [] OTHER -> ParseFail

\* A value, and nothing but whitespace after it.
WholeText(s, r) ==
    IF r.ok /\ SkipWs(s, r.i) = Len(s) + 1
    THEN [ok |-> TRUE, v |-> r.v]
    ELSE [ok |-> FALSE, v |-> PyNone]

\* json.loads(s): [ok, v]; ~ok is json.JSONDecodeError.
json_loads(s) == WholeText(s, ScanValue(s, SkipWs(s, 1)))

\* What json.dumps writes for the character c of a string (ASCII).
Escaped(c) ==
    CASE c \in {"\"", "\\"} -> "\\" \o c
      [] c = "\n" -> "\\n"
      [] c = "\t" -> "\\t"
      [] c = "\r" -> "\\r"
      [] OTHER -> c

\* The body of a JSON string literal for s.
RECURSIVE Escape(_)
Escape(s) == IF s = "" THEN "" ELSE Escaped(Head(s)) \o Escape(Tail(s))

RECURSIVE Dumps(_), DumpsMembers(_, _)
Dumps(v) ==
    CASE v.t = "none" -> "null"
      [] v.t = "str" -> "\"" \o Escape(v.s) \o "\""
      [] v.t = "dict" -> "{" \o DumpsMembers(v.m, TRUE) \o "}"
      [] v.t = "list" -> "[" \o DumpsMembers(v.m, FALSE) \o "]"
      [] OTHER -> v.s

DumpsMembers(members, keyed) ==
    IF members = <<>> THEN ""
    ELSE (IF keyed THEN "\"" \o Escape(Head(members).k) \o "\": " ELSE "")
            \o Dumps(Head(members).v)
            \o (IF Tail(members) = <<>> THEN "" ELSE ", ")
            \o DumpsMembers(Tail(members), keyed)

\* json_to_string
json_to_string(json_obj) == Dumps(json_obj)

-----------------------------------------------------------------------------
(* llama.py: analyze_sms. *)

\* The first newline at or after position k, or Len(s) + 1.
RECURSIVE LineEnd(_, _)
LineEnd(s, k) == IF Ch(s, k) \in {"", "\n"} THEN k ELSE LineEnd(s, k + 1)

\* The last "}" in s[a..b], or 0.
RECURSIVE LastBrace(_, _, _)
LastBrace(s, a, b) ==
    IF b < a THEN 0 ELSE IF Ch(s, b) = "}" THEN b ELSE LastBrace(s, a, b - 1)

\* Where the pattern \{.*\} matches from position k: "." matches no newline,
\* and ".*" is greedy, so the match ends at the last "}" of k's line.
MatchEnd(s, k) ==
    IF Ch(s, k) = "{" THEN LastBrace(s, k + 1, LineEnd(s, k) - 1) ELSE 0

\* The leftmost position from k on where the pattern matches, or 0.
RECURSIVE FirstMatch(_, _)
FirstMatch(s, k) ==
    IF k > Len(s) THEN 0
    ELSE IF MatchEnd(s, k) # 0 THEN k
    ELSE FirstMatch(s, k + 1)

MatchAt(s, k) ==
    IF k = 0 THEN [found |-> FALSE, group |-> ""]
    ELSE [found |-> TRUE, group |-> SubSeq(s, k, MatchEnd(s, k))]

\* re.search(r'\{.*\}', content): [found, group].
re_search(content) == MatchAt(content, FirstMatch(content, 1))

\* The branch `if json_obj:`, matched being json.loads of the match and
\* whole json.loads of the content.
recover_matched(content, matched, whole) ==
    IF matched.ok THEN [content |-> content, json |-> matched.v]
    ELSE IF whole.ok THEN [content |-> content, json |-> whole.v]
    ELSE [content |-> content, json |-> PyNone]

\* The branch `else:`.
recover_unmatched(content, whole) ==
    IF whole.ok THEN [content |-> content, json |-> whole.v]
    ELSE [content |-> content, json |-> PyDict(<<>>)]

interpret(content, json_obj) ==
    IF json_obj.found
    THEN recover_matched(content, json_loads(json_obj.group), json_loads(content))
    ELSE recover_unmatched(content, json_loads(content))

\* What analyze_sms returns when ollama.generate raises.
on_service_error == [content |-> "", json |-> PyNone]

\* analyze_sms(sms) when the service answers resp: resp.err is ollama.generate
\* raising, resp.text is response['response'].  json is the second element
\* of the returned pair (PyNone for None).
analyze_sms(resp) ==
    IF resp.err THEN on_service_error ELSE interpret(resp.text, re_search(resp.text))

-----------------------------------------------------------------------------
(* analyze.py: the helpers. *)

\* remove_newlines_non_ascii
RECURSIVE remove_newlines_non_ascii(_)
remove_newlines_non_ascii(text) ==
    IF text = "" THEN ""
    ELSE LET c == Head(text)
             kept == IF c = "\n" THEN " "
                     ELSE IF c \notin AsciiChars \/ c \in {"\"", "'"} THEN ""
                     ELSE c
         IN  kept \o remove_newlines_non_ascii(Tail(text))

\* hashlib.md5(body.encode()).hexdigest(): a function of the body alone,
\* taken to be free of collisions.
md5_hexdigest(body) == "md5(" \o body \o ")"

Raise(cls) == [exc |-> cls, v |-> PyNone]
Return(v) == [exc |-> "", v |-> v]

\* The float whose integer digits are s[a..b-1] and whose fraction ends
\* before c.
FloatParts(s, a, b, c) ==
    IF c = Len(s) + 1 /\ (b > a \/ c > b + 1)
    THEN Return(PyFloat(FloatRepr(Ch(s, 1) = "-",
                                  IF b = a THEN "0" ELSE SubSeq(s, a, b - 1),
                                  SubSeq(s, b + 1, c - 1))))
    ELSE Raise("ValueError")

FloatDigits(s, a, b) ==
    FloatParts(s, a, b, IF Ch(s, b) = "." THEN SpanDigits(s, b + 1) ELSE b)

FloatSigned(s, a) == FloatDigits(s, a, SpanDigits(s, a))

FloatStripped(s) == FloatSigned(s, IF Ch(s, 1) \in {"-", "+"} THEN 2 ELSE 1)

\* float(s) of a string: [+-]? digits [. digits] with a digit somewhere,
\* whitespace around it allowed; anything else is a ValueError.  (The
\* strings here have no exponent, underscore, inf or nan.)
FloatOfStr(text) == FloatStripped(Strip(text))

\* float(value)
PyFloatOf(value) ==
    CASE value.t = "float" -> Return(value)
      [] value.t = "int" ->
            Return(PyFloat(FloatRepr(Ch(value.s, 1) = "-",
                       IF Ch(value.s, 1) = "-" THEN Tail(value.s) ELSE value.s, "")))
      [] value.t = "bool" -> Return(PyFloat(IF value.s = "true" THEN "1.0" ELSE "0.0"))
      [] value.t = "str" -> FloatOfStr(value.s)
      [] OTHER -> Raise("TypeError")

\* `except ValueError: return 0.0`
catch_value_error(r) == IF r.exc = "ValueError" THEN Return(PyFloat("0.0")) ELSE r

\* floatify
floatify(value) == catch_value_error(PyFloatOf(value))

\* The defaults of ensure_keys.
defaults ==
    [ date |-> PyNone, source |-> PyStr(""), destination |-> PyStr(""),
      body |-> PyStr(""), body_md5 |-> PyStr(""), llm_output |-> PyStr(""),
      amount |-> PyFloat("0.0"), type |-> PyStr("Unknown"),
      transaction_source |-> PyStr(""), category |-> PyStr("Unknown") ]

\* {**defaults, **json_obj}: no filter on None.
ensure_keys_unfiltered(json_obj) ==
    [ key \in DOMAIN defaults \cup DOMAIN json_obj |->
        IF key \in DOMAIN json_obj THEN json_obj[key] ELSE defaults[key] ]

\* ensure_keys
ensure_keys(json_obj) ==
    [ key \in DOMAIN defaults \cup DOMAIN json_obj |->
        IF key \in DOMAIN json_obj /\ json_obj[key] # PyNone
        THEN json_obj[key]
        ELSE defaults[key] ]

-----------------------------------------------------------------------------
(* analyze.py: parse_sms_xml. *)

DigitVal(c) == CHOOSE n \in 0..9 : Ch("0123456789", n + 1) = c

RECURSIVE LexLeq(_, _)
LexLeq(a, b) ==
    IF a = "" THEN TRUE
    ELSE IF Head(a) = Head(b) THEN LexLeq(Tail(a), Tail(b))
    ELSE DigitVal(Head(a)) < DigitVal(Head(b))

\* a <= b for decimal numerals without leading zeros.
DecLeq(a, b) == IF Len(a) # Len(b) THEN Len(a) < Len(b) ELSE LexLeq(a, b)

\* a + 1 for a decimal numeral.
RECURSIVE DecInc(_)
DecInc(a) ==
    IF a = "" THEN "1"
    ELSE LET init == SubSeq(a, 1, Len(a) - 1)
             last == DigitVal(Ch(a, Len(a)))
         IN  IF last = 9 THEN DecInc(init) \o "0"
             ELSE init \o Ch("0123456789", last + 2)

IntSigned(s, a, digits) ==
    IF digits # "" /\ SpanDigits(s, a) = Len(s) + 1
    THEN Return(PyInt((IF Ch(s, 1) = "-" /\ StripLeadingZeros(digits) # "0" THEN "-" ELSE "")
                        \o StripLeadingZeros(digits)))
    ELSE Raise("ValueError")

IntStripped(s) ==
    IF Ch(s, 1) \in {"-", "+"} THEN IntSigned(s, 2, SubSeq(s, 2, Len(s)))
    ELSE IntSigned(s, 1, s)

\* int(s) of a string: whitespace, a sign, digits.
IntOfStr(text) == IntStripped(Strip(text))

\* The limits of datetime.fromtimestamp on the platform, in milliseconds:
\* the last millisecond of year 9999 and the first of year 1, the largest
\* second localtime() takes, and the largest time_t.
Year9999Ms == "253402300799999"
Year1Ms == "62135596799999"
LocaltimeMaxMs == "67768036191676799000"
TimeTMaxMs == "9223372036854775807000"

\* floor(ms / 1000) of the numeral ms with sign neg, as a signed numeral.
FloorSeconds(neg, ms) ==
    LET whole == IF Len(ms) > 3 THEN SubSeq(ms, 1, Len(ms) - 3) ELSE "0"
        part == IF Len(ms) > 3 THEN SubSeq(ms, Len(ms) - 2, Len(ms)) ELSE ms
        exact == StripLeadingZeros(part) = "0"
    IN  IF ~neg THEN whole
        ELSE IF exact THEN (IF whole = "0" THEN "0" ELSE "-" \o whole)
        ELSE "-" \o DecInc(whole)

\* datetime.datetime.fromtimestamp(timestamp / 1000).strftime(...): the
\* calendar string is a function of the second the timestamp falls in.
fromtimestamp_strftime(timestamp) ==
    LET neg == Ch(timestamp.s, 1) = "-"
        ms == IF neg THEN Tail(timestamp.s) ELSE timestamp.s
    IN  IF ~DecLeq(ms, TimeTMaxMs) THEN Raise("OverflowError")
        ELSE IF ~DecLeq(ms, LocaltimeMaxMs) THEN Raise("OSError")
        ELSE IF ~DecLeq(ms, IF neg THEN Year1Ms ELSE Year9999Ms) THEN Raise("ValueError")
        ELSE Return(PyStr("epoch second " \o FloorSeconds(neg, ms)))

\* The exception classes `except (ValueError, TypeError)` catches.
CaughtByDateHandler == {"ValueError", "TypeError"}

\* The inner try of parse_sms_xml around r: a caught exception sets the
\* date to None, another one leaves the try.
date_handler(r) ==
    IF r.exc # "" /\ r.exc \in CaughtByDateHandler THEN Return(PyNone) ELSE r

convert_timestamp(timestamp) ==
    IF timestamp.exc # "" THEN date_handler(timestamp)
    ELSE date_handler(fromtimestamp_strftime(timestamp.v))

\* The timestamp conversion of one element: the new value of
\* sms_dict['date'], or the exception that leaves the inner try.
convert_date(date) == convert_timestamp(IntOfStr(date.s))

\* sms_dict['address'] = str(sms_dict['address']).strip()
strip_address(sms_dict) ==
    IF HasKey(sms_dict, "address")
    THEN DictSet(sms_dict, "address", PyStr(Strip(DictGet(sms_dict, "address", PyNone).s)))
    ELSE sms_dict

set_body(sms_dict, body) ==
    DictSet(DictSet(sms_dict, "body", PyStr(body)), "body_md5", PyStr(md5_hexdigest(body)))

\* The cleaned body and its fingerprint.
clean_body(sms_dict) ==
    IF HasKey(sms_dict, "body")
    THEN set_body(sms_dict, remove_newlines_non_ascii(DictGet(sms_dict, "body", PyNone).s))
    ELSE sms_dict

with_date(attrib, date) ==
    IF date.exc # "" THEN Raise(date.exc)
    ELSE Return(PyDict(clean_body(strip_address(DictSet(attrib, "date", date.v)))))

\* The body of the loop over root.xpath('//sms'): the sms_dict of one
\* element with attributes attrib, or the exception that leaves the loop.
parse_sms(attrib) ==
    IF HasKey(attrib, "date")
    THEN with_date(attrib, convert_date(DictGet(attrib, "date", PyNone)))
    ELSE Return(PyDict(clean_body(strip_address(attrib))))

RECURSIVE parse_elements(_, _)
parse_next(rest, acc, sms) ==
    IF sms.exc # "" THEN [exc |-> sms.exc, v |-> <<>>]
    ELSE parse_elements(rest, Append(acc, sms.v))

\* The loop of parse_sms_xml: [exc, v], v the list of sms_dicts.
parse_elements(elements, acc) ==
    IF elements = <<>> THEN [exc |-> "", v |-> acc]
    ELSE parse_next(Tail(elements), acc, parse_sms(Head(elements).m))

\* parse_sms_xml on a document.
parse_sms_xml(document) ==
    IF ~document.wellformed THEN [exc |-> "XMLSyntaxError", v |-> <<>>]
    ELSE parse_elements(document.elements, <<>>)

-----------------------------------------------------------------------------
(* analyze.py: analyze_sms_list. *)

NoRecord == [ k \in DOMAIN defaults |-> PyNone ]

\* floatify(json_analysis.get('Amount', 0)) if json_analysis else 0
amount_of(json_analysis) ==
    IF ~Truthy(json_analysis) THEN Return(PyInt("0"))
    ELSE IF json_analysis.t # "dict" THEN Raise("AttributeError")
    ELSE floatify(DictGet(json_analysis.m, "Amount", PyInt("0")))

build_result(sms, json_analysis, amount) ==
    IF amount.exc # "" THEN [exc |-> amount.exc, v |-> NoRecord]
    ELSE IF json_analysis.t # "dict" THEN [exc |-> "AttributeError", v |-> NoRecord]
    ELSE [exc |-> "",
          v |-> [ date |-> DictGet(sms.m, "date", PyNone),
                  source |-> DictGet(sms.m, "address", PyNone),
                  body |-> DictGet(sms.m, "body", PyNone),
                  body_md5 |-> DictGet(sms.m, "body_md5", PyNone),
                  llm_output |-> PyStr(json_to_string(json_analysis)),
                  amount |-> amount.v,
                  type |-> DictGet(json_analysis.m, "Type", PyStr("Unknown")),
                  transaction_source |-> DictGet(json_analysis.m, "Source", PyNone),
                  destination |-> DictGet(json_analysis.m, "Destination", PyNone),
                  category |-> DictGet(json_analysis.m, "Category", PyStr("Unknown")) ]]

\* The try block of the loop of analyze_sms_list for message sms, analyze_sms
\* having returned ret: [exc, v], v the analysis_result.
analysis_result(sms, ret) == build_result(sms, ret.json, amount_of(ret.json))

\* `if not sms.get('body'): continue`
HasBody(sms) == Truthy(DictGet(sms.m, "body", PyNone))

\* What an iteration appends to output.
appended(a) == IF a.exc = "" THEN << a.v >> ELSE <<>>

\* analyze_sms_list(messages) when the service answers the k-th message that
\* has a body with responses[k].
RECURSIVE analyze_sms_list(_, _)
analyze_sms_list(messages, responses) ==
    IF messages = <<>> THEN <<>>
    ELSE IF ~HasBody(Head(messages)) THEN analyze_sms_list(Tail(messages), responses)
    ELSE appended(analysis_result(Head(messages), analyze_sms(Head(responses))))
            \o analyze_sms_list(Tail(messages), Tail(responses))

-----------------------------------------------------------------------------
(* analyze.py: setup_database, save_to_sqlite, save_to_csv. *)

Columns == DOMAIN defaults

\* What a column of table sms keeps of a bound value: amount is REAL, the
\* other columns are TEXT.
stored(column, v) ==
    IF column = "amount"
    THEN (IF v.t \in {"int", "bool"} THEN PyFloatOf(v).v ELSE v)
    ELSE (CASE v.t \in {"int", "float"} -> PyStr(v.s)
            [] v.t = "bool" -> PyStr(IF v.s = "true" THEN "1" ELSE "0")
            [] OTHER -> v)

\* The types sqlite3 binds as parameters.
Bindable(v) == v.t \in {"none", "int", "float", "str", "bool"}

\* The row an INSERT adds, without its id.
NewRow(sms) == [ column \in Columns |-> stored(column, sms[column]) ]

\* body_md5 TEXT UNIQUE: NULLs never conflict.
Conflicts(rows, sms) ==
    { n \in 1..Len(rows) :
        sms.body_md5 # PyNone /\ rows[n].body_md5 = stored("body_md5", sms.body_md5) }

\* INSERT INTO sms: a conflict raises.
sql_insert(rows, sms) ==
    IF Conflicts(rows, sms) # {} THEN [exc |-> "IntegrityError", rows |-> rows]
    ELSE [exc |-> "", rows |-> Append(rows, NewRow(sms))]

\* INSERT OR REPLACE INTO sms: the conflicting row is deleted first.
sql_insert_or_replace(rows, sms) ==
    LET kept == SelectSeq(rows, LAMBDA row : row.body_md5 # stored("body_md5", sms.body_md5))
    IN  [exc |-> "", rows |-> Append(kept, NewRow(sms))]

\* INSERT OR IGNORE INTO sms
sql_insert_or_ignore(rows, sms) ==
    IF Conflicts(rows, sms) # {} THEN [exc |-> "", rows |-> rows]
    ELSE [exc |-> "", rows |-> Append(rows, NewRow(sms))]

\* cursor.execute(insert_query, (...)) on the rows the connection sees; a
\* list or a dict is no parameter sqlite3 binds (sqlite3.ProgrammingError;
\* sqlite3.InterfaceError before Python 3.11).
execute_insert(rows, sms) ==
    IF \E column \in Columns : ~Bindable(sms[column])
    THEN [exc |-> "ProgrammingError", rows |-> rows]
    ELSE sql_insert_or_ignore(rows, sms)

\* The committed rows after an execute: every statement commits at once.
autocommit(committed, seen) == seen

\* The committed rows after an execute: sqlite3 opens a transaction before
\* the first INSERT, and nothing is committed until conn.commit().
in_transaction(committed, seen) == committed

RECURSIVE insert_all(_, _)
insert_next(rest, r) == IF r.exc # "" THEN r ELSE insert_all(r.rows, rest)

\* The loop of save_to_sqlite from rows on: [exc, rows].
insert_all(rows, batch) ==
    IF batch = <<>> THEN [exc |-> "", rows |-> rows]
    ELSE insert_next(Tail(batch), execute_insert(rows, ensure_keys(Head(batch))))

\* conn.commit(), or conn.rollback() and the exception raised again.
commit_or_rollback(committed, r) ==
    IF r.exc # "" THEN [exc |-> r.exc, rows |-> committed] ELSE r

\* save_to_sqlite(batch) on committed rows, the database itself not failing:
\* [exc, rows], rows the committed rows afterwards.
save_to_sqlite(committed, batch) == commit_or_rollback(committed, insert_all(committed, batch))

\* The rows save_to_csv writes after the header.
csv_rows(batch) == [ n \in 1..Len(batch) |-> ensure_keys(batch[n]) ]

-----------------------------------------------------------------------------
(* The inputs explored. *)

SeqsUpTo(S, n) == UNION { [1..k -> S] : k \in 0..n }

Absent == [t |-> "absent", s |-> "", m |-> <<>>]

\* The attributes of an <sms> element; an Absent attribute is not there.
Attrib(date, address, body) ==
    LET all == << [k |-> "address", v |-> address], [k |-> "date", v |-> date],
                  [k |-> "body", v |-> body] >>
    IN  PyDict(SelectSeq(all, LAMBDA a : a.v # Absent))

DateAttrs ==
    { Absent, PyStr("1671408000000"), PyStr("1671408000999"), PyStr("1671494400000"),
      PyStr("abc"), PyStr("1000000000000000"), PyStr("100000000000000000000"),
      PyStr("100000000000000000000000") }

AddressAttrs == { Absent, PyStr(" SBI ") }

BodyAttrs == { Absent, PyStr(""), PyStr("A/c 'X2684' debited\nRs480.0"), PyStr("Airtel offer") }

Elements ==
    { Attrib(d, PyStr(" SBI "), PyStr("Airtel offer")) : d \in DateAttrs }
        \cup { Attrib(PyStr("1671408000000"), a, b) : a \in AddressAttrs, b \in BodyAttrs }

Documents ==
    { [wellformed |-> TRUE, elements |-> e] : e \in SeqsUpTo(Elements, MaxMsgs) }
        \cup { [wellformed |-> FALSE, elements |-> <<>>] }

\* The messages the analysis is explored on: one body under two timestamps,
\* a message with no sender and an unparsable timestamp, one with no body.
SampleElements ==
    { Attrib(PyStr("1671408000000"), PyStr(" SBI "), PyStr("A/c 'X2684' debited\nRs480.0")),
      Attrib(PyStr("1671494400000"), PyStr(" SBI "), PyStr("A/c X2684 debited Rs480.0")),
      Attrib(PyStr("abc"), Absent, PyStr("Airtel offer")),
      Attrib(Absent, PyStr("AIRTEL"), PyStr("")) }

ParsedLists ==
    { parse_sms_xml([wellformed |-> TRUE, elements |-> e]).v :
        e \in SeqsUpTo(SampleElements, MaxMsgs) }

\* The sentinel phrases of system_prompt.
Sentinels ==
    { "Not expense", "Amount not clear", "Bill payment reminder",
      "Credit card bill payment receipt", "Money requested", "Money credited/refunded" }

Answer(text) == [err |-> FALSE, text |-> text]
ServiceError == [err |-> TRUE, text |-> ""]

\* What the service may do for a message.
Responses ==
    { ServiceError,
      Answer("{\"Amount\": 480.0, \"Type\": \"Debit\"}"),
      Answer("Sure: {\"Amount\": \"480\", \"Category\": \"Transportation\"} Done."),
      Answer("Here it is:\n{\n\"Amount\": 274.0,\n\"Destination\": \"tpslQR\"\n}"),
      Answer("{\"Amount\": null, \"Type\": \"Debit\"}"),
      Answer("{\"Amount\": \"Rs480\", \"Type\": null}"),
      Answer("{\"Source\": [\"X2684\"]}"),
      Answer("{\"Amount\": 480.0,}"),
      Answer("\"Not expense\""),
      Answer("Not expense"),
      Answer("Money credited/refunded") }

\* The objects, and the texts around them, the recovery is explored on.
SampleObjects ==
    { PyDict(<< [k |-> "Amount", v |-> PyFloat("480.0")] >>),
      PyDict(<< [k |-> "Amount", v |-> PyStr("480")], [k |-> "Type", v |-> PyStr("Debit")] >>),
      PyDict(<< [k |-> "Type", v |-> PyStr("Credit")], [k |-> "Source", v |-> PyNone] >>),
      PyDict(<< [k |-> "Amount", v |-> PyInt("274")], [k |-> "Category", v |-> PyStr("Healthcare")],
                [k |-> "Destination", v |-> PyStr("tpslQR")] >>) }

Prefixes == { "", "Sure: ", "Here it is:\n" }
Suffixes == { "", " Done.", "\nDone." }

\* The object written one member a line.
RECURSIVE MemberLines(_)
MemberLines(members) ==
    IF members = <<>> THEN ""
    ELSE "\"" \o Head(members).k \o "\": " \o Dumps(Head(members).v)
            \o (IF Tail(members) = <<>> THEN "\n" ELSE ",\n")
            \o MemberLines(Tail(members))

Layout(object, lines) ==
    IF lines THEN "{\n" \o MemberLines(object.m) \o "}" ELSE Dumps(object)

\* Every text made of one well-formed object and prose around it.
Composed ==
    { [text |-> p \o Layout(o, l) \o s, object |-> o, lines |-> l, bare |-> p = "" /\ s = ""] :
        p \in Prefixes, o \in SampleObjects, l \in BOOLEAN, s \in Suffixes }

-----------------------------------------------------------------------------
(* The state machines. *)

\* A narrower clause, `except ValueError`.
catches_value_error(exc) == exc = "ValueError"

\* The except clause of analyze_sms_list's loop, `except Exception`: every
\* class the loop body raises is caught.
analyze_handler_catches(exc) == TRUE

\* The record of a call of analyze_sms: the message, the response, the pair
\* returned, the exception of the try block, the place of the record in
\* output (0 for none).
Call(resp, ret, a) ==
    [ n |-> i, resp |-> resp, content |-> ret.content, json |-> ret.json,
      exc |-> a.exc, at |-> IF a.exc = "" THEN Len(output) + 1 ELSE 0 ]

\* The rest of an iteration, the try block having ended as a.
AfterTry(resp, ret, a) ==
    /\ raw' = Append(raw, Call(resp, ret, a))
    /\ IF a.exc = ""
       THEN /\ output' = Append(output, a.v)
            /\ i' = i + 1
            /\ UNCHANGED <<pc, raised>>
       ELSE IF analyze_handler_catches(a.exc)
       THEN /\ i' = i + 1
            /\ UNCHANGED <<pc, raised, output>>
       ELSE /\ pc' = "raised"
            /\ raised' = a.exc
            /\ UNCHANGED <<i, output>>

AfterCall(resp, ret) == AfterTry(resp, ret, analysis_result(sms_list[i], ret))

\* analyze_sms_list's loop, one iteration: the message has no body.
AnalyzeSkip ==
    /\ pc = "analyze"
    /\ i <= Len(sms_list)
    /\ ~HasBody(sms_list[i])
    /\ i' = i + 1
    /\ UNCHANGED <<pc, xml, sms_list, replies, output, raw, db, txn, csv, raised>>

\* analyze_sms_list's loop, one iteration: the message is analysed, the
\* service answering resp.
AnalyzeSms ==
    /\ pc = "analyze"
    /\ i <= Len(sms_list)
    /\ HasBody(sms_list[i])
    /\ \E resp \in replies : AfterCall(resp, analyze_sms(resp))
    /\ UNCHANGED <<xml, sms_list, replies, db, txn, csv>>

\* analyze_sms_list returns output.
AnalyzeReturn ==
    /\ pc = "analyze"
    /\ i > Len(sms_list)
    /\ pc' = "save"
    /\ UNCHANGED <<xml, i, sms_list, replies, output, raw, db, txn, csv, raised>>

Saved(r) ==
    IF r.exc = ""
    THEN db' = r.rows /\ pc' = "csv" /\ UNCHANGED raised
    ELSE pc' = "raised" /\ raised' = r.exc /\ UNCHANGED db

\* main: save_to_sqlite(output), from its first line to its last.
SaveBatch ==
    /\ pc = "save"
    /\ Saved(save_to_sqlite(db, output))
    /\ UNCHANGED <<xml, i, sms_list, replies, output, raw, txn, csv>>

\* main: save_to_csv(output).
WriteCsv ==
    /\ pc = "csv"
    /\ csv' = csv_rows(output)
    /\ pc' = "done"
    /\ UNCHANGED <<xml, i, sms_list, replies, output, raw, db, txn, raised>>

NextAnalyze == AnalyzeSkip \/ AnalyzeSms \/ AnalyzeReturn \/ SaveBatch \/ WriteCsv

\* One run of main on a new database, from the parsed list on, the service
\* giving any of Responses.  (main's sms_list[:n] is a shorter list.)
InitAnalyze ==
    /\ pc = "analyze"
    /\ xml = [wellformed |-> TRUE, elements |-> <<>>]
    /\ i = 1
    /\ sms_list \in ParsedLists
    /\ replies = Responses
    /\ output = <<>>
    /\ raw = <<>>
    /\ db = <<>>
    /\ txn = <<>>
    /\ csv = <<>>
    /\ raised = ""

SpecAnalyze == InitAnalyze /\ [][NextAnalyze]_vars

\* As InitAnalyze, on at most one message, the service giving one text made
\* of a well-formed object and prose around it.
InitRecover ==
    /\ pc = "analyze"
    /\ xml = [wellformed |-> TRUE, elements |-> <<>>]
    /\ i = 1
    /\ sms_list \in { l \in ParsedLists : Len(l) <= 1 }
    /\ replies \in { {Answer(c.text)} : c \in Composed }
    /\ output = <<>>
    /\ raw = <<>>
    /\ db = <<>>
    /\ txn = <<>>
    /\ csv = <<>>
    /\ raised = ""

SpecRecover == InitRecover /\ [][NextAnalyze]_vars

\* parse_sms_xml: the file is read and parsed.
ReadDocument ==
    /\ pc = "read"
    /\ IF xml.wellformed
       THEN pc' = "loop" /\ UNCHANGED raised
       ELSE pc' = "raised" /\ raised' = "XMLSyntaxError"
    /\ UNCHANGED <<xml, i, sms_list, replies, output, raw, db, txn, csv>>

Parsed(sms) ==
    IF sms.exc = ""
    THEN /\ sms_list' = Append(sms_list, sms.v)
         /\ i' = i + 1
         /\ UNCHANGED <<pc, raised>>
    ELSE /\ pc' = "raised"
         /\ raised' = sms.exc
         /\ UNCHANGED <<i, sms_list>>

\* parse_sms_xml's loop, one iteration; an exception that leaves it is logged
\* and raised again.
ParseSms ==
    /\ pc = "loop"
    /\ i <= Len(xml.elements)
    /\ Parsed(parse_sms(xml.elements[i].m))
    /\ UNCHANGED <<xml, replies, output, raw, db, txn, csv>>

\* parse_sms_xml returns sms_list.
ParseReturn ==
    /\ pc = "loop"
    /\ i > Len(xml.elements)
    /\ pc' = "parsed"
    /\ UNCHANGED <<xml, i, sms_list, replies, output, raw, db, txn, csv, raised>>

NextParse == ReadDocument \/ ParseSms \/ ParseReturn

\* parse_sms_xml on the documents.
InitParse ==
    /\ pc = "read"
    /\ xml \in Documents
    /\ i = 1
    /\ sms_list = <<>>
    /\ replies = {}
    /\ output = <<>>
    /\ raw = <<>>
    /\ db = <<>>
    /\ txn = <<>>
    /\ csv = <<>>
    /\ raised = ""

SpecParse == InitParse /\ [][NextParse]_vars

\* The responses the persistence is explored on.
StoreResponses ==
    { Answer("{\"Amount\": 480.0, \"Type\": \"Debit\"}"),
      Answer("{\"Amount\": \"Rs480\", \"Type\": null}"),
      Answer("{\"Source\": [\"X2684\"]}") }

\* The outputs of analyze_sms_list that main hands to save_to_sqlite.
Batches ==
    { analyze_sms_list(l, r) : l \in ParsedLists, r \in [1..MaxMsgs -> StoreResponses] }

\* A run of main comes to save_to_sqlite(output): setup_database opens the
\* connection on the committed rows.
SetupDatabase ==
    /\ pc = "idle"
    /\ \E batch \in Batches : output' = batch
    /\ pc' = "insert"
    /\ i' = 1
    /\ txn' = db
    /\ UNCHANGED <<xml, sms_list, replies, raw, db, csv, raised>>

Executed(r) ==
    IF r.exc = ""
    THEN /\ txn' = r.rows
         /\ db' = in_transaction(db, r.rows)
         /\ i' = i + 1
         /\ UNCHANGED <<pc, raised>>
    ELSE /\ pc' = "rollback"
         /\ raised' = r.exc
         /\ UNCHANGED <<i, txn, db>>

\* save_to_sqlite's loop, one iteration: the insert succeeds or raises.
Insert ==
    /\ pc = "insert"
    /\ i <= Len(output)
    /\ Executed(execute_insert(txn, ensure_keys(output[i])))
    /\ UNCHANGED <<xml, sms_list, replies, output, raw, csv>>

\* The database itself fails an execute or the commit (locked, disk full).
DatabaseError ==
    /\ pc = "insert"
    /\ pc' = "rollback"
    /\ raised' = "OperationalError"
    /\ UNCHANGED <<xml, i, sms_list, replies, output, raw, db, txn, csv>>

\* conn.commit() after the loop, and conn.close().
Commit ==
    /\ pc = "insert"
    /\ i > Len(output)
    /\ db' = txn
    /\ pc' = "committed"
    /\ UNCHANGED <<xml, i, sms_list, replies, output, raw, txn, csv, raised>>

\* The except clause: conn.rollback(), conn.close(), and the exception is
\* raised again.
Rollback ==
    /\ pc = "rollback"
    /\ txn' = db
    /\ pc' = "failed"
    /\ UNCHANGED <<xml, i, sms_list, replies, output, raw, db, csv, raised>>

\* The process is terminated inside save_to_sqlite: what was not committed
\* is gone.
Kill ==
    /\ pc \in {"insert", "rollback"}
    /\ txn' = db
    /\ pc' = "failed"
    /\ raised' = "killed"
    /\ UNCHANGED <<xml, i, sms_list, replies, output, raw, db, csv>>

\* The run ends, with or without an exception; the database stays.
Exit ==
    /\ pc \in {"committed", "failed"}
    /\ pc' = "idle"
    /\ output' = <<>>
    /\ i' = 1
    /\ txn' = <<>>
    /\ raised' = ""
    /\ UNCHANGED <<xml, sms_list, replies, raw, db, csv>>

Next == SetupDatabase \/ Insert \/ DatabaseError \/ Commit \/ Rollback \/ Kill \/ Exit

\* Runs of save_to_sqlite, one after the other, on the database they share.
Init ==
    /\ pc = "idle"
    /\ xml = [wellformed |-> TRUE, elements |-> <<>>]
    /\ i = 1
    /\ sms_list = <<>>
    /\ replies = {}
    /\ output = <<>>
    /\ raw = <<>>
    /\ db = <<>>
    /\ txn = <<>>
    /\ csv = <<>>
    /\ raised = ""

Spec == Init /\ [][Next]_vars

-----------------------------------------------------------------------------
(* The properties. *)

\* C1: the table holds at most one row per body_md5; a row, once there, is
\* never changed or removed; a new row is the first record of the batch with
\* its fingerprint, and only when the table had no row with it.
FirstInsertWins ==
    /\ [](\A a, b \in 1..Len(db) : a # b => db[a].body_md5 # db[b].body_md5)
    /\ [][ /\ Len(db') >= Len(db)
           /\ \A n \in 1..Len(db) : db'[n] = db[n]
           /\ \A n \in (Len(db) + 1)..Len(db') : \E k \in 1..Len(output) :
                /\ db'[n] = NewRow(ensure_keys(output[k]))
                /\ \A j \in 1..(k - 1) : output[j].body_md5 # output[k].body_md5
                /\ \A m \in 1..Len(db) : db[m].body_md5 # output[k].body_md5 ]_vars

\* A committed batch had a record whose fingerprint is in the table under
\* another date.
DuplicateRejected ==
    /\ pc = "committed"
    /\ \E k \in 1..Len(output) : \E n \in 1..Len(db) :
        /\ db[n].body_md5 = output[k].body_md5
        /\ db[n].date # output[k].date

\* C2: right after save_to_sqlite(B) has committed, save_to_sqlite(B) again
\* raises nothing and leaves the table as it is.
SecondSaveChangesNothing ==
    pc = "committed" => save_to_sqlite(db, output) = [exc |-> "", rows |-> db]

\* A batch of two records has been committed.
SavedBatch ==
    /\ pc = "committed"
    /\ Len(output) = MaxMsgs
    /\ \E n \in 1..Len(db) : db[n].body_md5 = output[1].body_md5

\* C3: the table changes only at the commit that ends the loop, and then to
\* the rows of the whole batch; an error leaves the table as it was before
\* the run and ends the run with the exception.
AllOrNothing ==
    /\ [][ db' # db =>
             /\ pc = "insert" /\ pc' = "committed"
             /\ save_to_sqlite(db, output) = [exc |-> "", rows |-> db'] ]_vars
    /\ [][ pc = "rollback" => db' = db /\ pc' = "failed" ]_vars
    /\ [](pc = "failed" => raised # "" /\ txn = db)

\* An insert raised after another one had added a row that is not committed.
ErrorAfterInsert ==
    /\ pc = "rollback"
    /\ raised = "ProgrammingError"
    /\ Len(txn) > Len(db)

\* C4: a message whose model text is one of the sentinel phrases gets no
\* record.
SentinelYieldsNoRecord ==
    \A k \in 1..Len(raw) : raw[k].content \in Sentinels => raw[k].at = 0

\* C5: a call the service fails returns ("", None) and gives no record; no
\* exception leaves the loop; every message with a body is analysed, in
\* source order, and output holds the records of the calls that gave one.
FailuresIsolated ==
    /\ \A k \in 1..Len(raw) :
         raw[k].resp.err => raw[k].content = "" /\ raw[k].json = PyNone /\ raw[k].at = 0
    /\ raised # "" => i > Len(sms_list)
    /\ Len(raw) = Cardinality({ n \in 1..(i - 1) : HasBody(sms_list[n]) })
    /\ \A k \in 1..Len(raw) : HasBody(sms_list[raw[k].n])
    /\ \A k \in 1..(Len(raw) - 1) : raw[k].n < raw[k + 1].n
    /\ Len(output) = Cardinality({ k \in 1..Len(raw) : raw[k].at # 0 })

\* The service failed for a message and the next one gave a record.
ErrorThenRecord ==
    /\ pc = "save"
    /\ \E k \in 1..(Len(raw) - 1) : raw[k].resp.err /\ raw[k + 1].at # 0

\* C6: of a text made of one well-formed object and prose around it,
\* analyze_sms returns that object.
ObjectRecovered ==
    \A c \in Composed : \A k \in 1..Len(raw) :
        raw[k].content = c.text => raw[k].json = c.object

\* The amount the record is to have: the float of Amount when it has one,
\* 0.0 otherwise.
AmountOrZero(json_analysis) ==
    IF PyFloatOf(DictGet(json_analysis.m, "Amount", PyInt("0"))).exc = ""
    THEN PyFloatOf(DictGet(json_analysis.m, "Amount", PyInt("0"))).v
    ELSE PyFloat("0.0")

\* C7: every call that returns an object gives a record, and its amount is
\* the float of Amount, or 0.0 when Amount is absent or no number.
AmountNeverBlocks ==
    \A k \in 1..Len(raw) :
        raw[k].json.t = "dict" =>
            /\ raw[k].at # 0
            /\ PyFloatOf(output[raw[k].at].amount).v = AmountOrZero(raw[k].json)

\* C8: after ensure_keys every field but date is non-null, in the rows of the
\* table and of the export as well; date is null exactly when the message
\* has no date or one that was not converted.
NonNullButDate ==
    /\ \A k \in 1..Len(raw) :
         raw[k].at # 0 =>
            /\ \A f \in Columns \ {"date"} : ensure_keys(output[raw[k].at])[f] # PyNone
            /\ ensure_keys(output[raw[k].at]).date = PyNone
                 <=> DictGet(sms_list[raw[k].n].m, "date", PyNone) = PyNone
    /\ \A n \in 1..Len(db) : \A f \in Columns \ {"date"} : db[n][f] # PyNone
    /\ \A n \in 1..Len(csv) : \A f \in Columns \ {"date"} : csv[n][f] # PyNone

\* C8 as stated: after ensure_keys every field is non-null.
AllFieldsNonNull ==
    /\ \A k \in 1..Len(output) : \A f \in Columns : ensure_keys(output[k])[f] # PyNone
    /\ \A n \in 1..Len(db) : \A f \in Columns : db[n][f] # PyNone
    /\ \A n \in 1..Len(csv) : \A f \in Columns : csv[n][f] # PyNone

\* A record with a null date is in the table and in the export, next to a
\* record whose Type was null.
NullDateStored ==
    /\ pc = "done"
    /\ \E n \in 1..Len(db) : db[n].date = PyNone
    /\ \E n \in 1..Len(csv) : csv[n].date = PyNone
    /\ \E k \in 1..Len(raw) :
         raw[k].at # 0 /\ DictGet(raw[k].json.m, "Type", PyStr("")) = PyNone

\* C9: llm_output of every record is the text the model returned for the
\* message.
OutputVerbatim ==
    \A k \in 1..Len(raw) :
        raw[k].at # 0 => output[raw[k].at].llm_output = PyStr(raw[k].content)

\* C10: no timestamp makes parse_sms_xml raise; every element of a document
\* is in the list returned, with a null date when its timestamp is no
\* number or beyond the calendar.
TimestampNeverFails ==
    /\ raised # "" => ~xml.wellformed
    /\ pc = "parsed" => Len(sms_list) = Len(xml.elements)

=============================================================================
